---- MODULE Spec2Model ----
(***************************************************************************)
(* AsgdOptimizer (optimization/AsgdOptimizer.tcc): averaged stochastic     *)
(* gradient descent with deferred rescaling of the two linear predictors.  *)
(*                                                                         *)
(* Numbers are rationals <<n, d>> in lowest terms, d > 0.  The variable    *)
(* arith selects how the result of one C++ double operation is obtained:   *)
(*   "double" : rounded to the nearest binary floating-point number with   *)
(*              MantBits significant bits, ties to even (IEEE-754 binary64 *)
(*              with the 53-bit significand scaled down to MantBits);      *)
(*   "real"   : not rounded (the algorithm in exact arithmetic).           *)
(* Spec is the program in double arithmetic, SpecReal the same program in  *)
(* exact arithmetic.                                                       *)
(***************************************************************************)
EXTENDS Integers, Sequences, FiniteSets, TLC

\* ------------------------------------------------------------------ bounds
MantBits == 5
MaxIter == 4
MaxBatch == 2
MaxCalls == 2

VARIABLES
    arith,              \* "double" | "real"
    dim,                \* constructor argument dim
    lossFunction,       \* _lossFunction
    lambda,             \* _lambda
    total_iterations,   \* _total_iterations
    lastPredictor,      \* _lastPredictor    [weights, bias]
    averagedPredictor,  \* _averagedPredictor [weights, bias]
    pc,                 \* position of the running Update, "idle" between calls
    locals,             \* Update's local constants and loop variables
    exampleIterator,    \* the example source handed to Update
    predictorRef,       \* object aliased by the reference GetPredictor returned
    hist,               \* one record per Update call: state before it, its batch
    observed            \* what a reader found behind the reference, and when

vars == <<arith, dim, lossFunction, lambda, total_iterations, lastPredictor,
          averagedPredictor, pc, locals, exampleIterator, predictorRef, hist,
          observed>>

\* ------------------------------------------------------- rational numbers
Abs(n) == IF n < 0 THEN -n ELSE n

RECURSIVE GCD(_, _)
GCD(a, b) == IF b = 0 THEN a ELSE GCD(b, a % b)

Norm(n, d) == LET g == GCD(Abs(n), d) IN <<n \div g, d \div g>>

Zero == <<0, 1>>
One == <<1, 1>>
Half == <<1, 2>>
Int2R(n) == <<n, 1>>

RNeg(x) == <<-x[1], x[2]>>

RAddX(x, y) ==
    LET g == GCD(x[2], y[2])
        l == (x[2] \div g) * y[2]
    IN  Norm(x[1] * (l \div x[2]) + y[1] * (l \div y[2]), l)

RMulX(x, y) ==
    IF x[1] = 0 \/ y[1] = 0 THEN Zero
    ELSE LET g1 == GCD(Abs(x[1]), y[2])
             g2 == GCD(Abs(y[1]), x[2])
         IN  <<(x[1] \div g1) * (y[1] \div g2), (x[2] \div g2) * (y[2] \div g1)>>

RInv(x) == IF x[1] > 0 THEN <<x[2], x[1]>> ELSE <<-x[2], -x[1]>>

RLess(x, y) == RAddX(x, RNeg(y))[1] < 0

RECURSIVE Pow2(_)
Pow2(k) == IF k = 0 THEN 1 ELSE 2 * Pow2(k - 1)

\* significands lie in SigMin .. SigLimit - 1
SigLimit == Pow2(MantBits)
SigMin == Pow2(MantBits - 1)

\* a/d > 0 scaled by 2^(-e) into [2^(MantBits-1), 2^MantBits), then rounded
\* to the nearest integer significand, ties to even
RECURSIVE FlPos(_, _, _)
FlPos(a, d, e) ==
    IF a \div d >= SigLimit
        THEN IF a % 2 = 0 THEN FlPos(a \div 2, d, e + 1) ELSE FlPos(a, 2 * d, e + 1)
    ELSE IF a \div d < SigMin
        THEN IF d % 2 = 0 THEN FlPos(a, d \div 2, e - 1) ELSE FlPos(2 * a, d, e - 1)
    ELSE LET q == a \div d
             r == a % d
             m == IF 2 * r > d \/ (2 * r = d /\ q % 2 = 1) THEN q + 1 ELSE q
         IN  IF e >= 0 THEN <<m * Pow2(e), 1>> ELSE Norm(m, Pow2(-e))

Fl(x) ==
    IF x[1] = 0 THEN Zero
    ELSE LET r == FlPos(Abs(x[1]), x[2], 0)
         IN  IF x[1] < 0 THEN RNeg(r) ELSE r

\* the result of one double operation
Rnd(x) == IF arith = "double" THEN Fl(x) ELSE x

RAdd(x, y) == Rnd(RAddX(x, y))
RSub(x, y) == Rnd(RAddX(x, RNeg(y)))
RMul(x, y) == Rnd(RMulX(x, y))
RDiv(x, y) == Rnd(RMulX(x, RInv(y)))

\* ln(t) to 10 fractional bits, t = 1 .. 8
LnTable ==
    <<Zero, <<355, 512>>, <<1125, 1024>>, <<355, 256>>,
      <<103, 64>>, <<1835, 1024>>, <<1993, 1024>>, <<2129, 1024>>>>

Log(t) == Rnd(LnTable[t])

\* ------------------------------------------------- collaborators of Update
\* IDataVector::Dot: the sum of x[i] * w[i], accumulated in index order
RECURSIVE DotFrom(_, _, _, _)
DotFrom(x, w, i, acc) ==
    IF i > Len(x) THEN acc ELSE DotFrom(x, w, i + 1, RAdd(acc, RMul(x[i], w[i])))

Dot(x, w) == DotFrom(x, w, 1, Zero)

\* IDataVector::AddTo(v, c): v[i] += c * x[i]
AddTo(x, v, c) == [i \in 1..Len(v) |-> RAdd(v[i], RMul(c, x[i]))]

\* LinearPredictor::Predict
Predict(p, x) == RAdd(Dot(x, p.weights), p.bias)

\* LinearPredictor::Scale
Scale(p, s) ==
    [weights |-> [i \in 1..Len(p.weights) |-> RMul(p.weights[i], s)],
     bias |-> RMul(p.bias, s)]

\* LinearPredictor(dim): zero weights, zero bias
ZeroPredictor(d) == [weights |-> [i \in 1..d |-> Zero], bias |-> Zero]

\* LossFunctionType::GetDerivative(prediction, label)
GetDerivative(loss, prediction, label) ==
    IF loss = "SquaredLoss" THEN RSub(prediction, label)
    ELSE \* HingeLoss
         IF RLess(RMul(prediction, label), One) THEN RNeg(label) ELSE Zero

\* ------------------------------------------------------------------ inputs
\* SupervisedExample(instance, label, weight): any double is accepted as weight
Example(x, label, weight) == [dataVector |-> x, label |-> label, weight |-> weight]

Examples ==
    { Example(<<One, Zero>>, One, One),
      Example(<<Zero, One>>, RNeg(One), One),
      Example(<<One, One>>, One, Zero),
      Example(<<Zero, One>>, One, RNeg(One)) }

Batches == UNION { [1..n -> Examples] : n \in 0..MaxBatch }

Dims == {2}
Losses == {"SquaredLoss", "HingeLoss"}
Lambdas == {Int2R(1), Int2R(2), Int2R(-1)}

\* ------------------------------------------------- the arithmetic of Update
\* line 40
Eta(lam, T_prev) == RDiv(RDiv(One, lam), T_prev)

\* the term 0.5 / T_next is left out
SigmaLogOnly(T_next) == Log(T_next[1])

\* line 41
Sigma(T_next) == RAdd(Log(T_next[1]), RDiv(Half, T_next))

\* line 44
HistoryWeight(sigma, T_prev) == RSub(RSub(sigma, Log(T_prev[1])), RDiv(Half, T_prev))

\* the counter is advanced twice per example
NextIterationTwice(n) == n + 2

\* the counter is not advanced
NextIterationStuck(n) == n

\* line 49
NextIteration(n) == n + 1

\* the prediction is used without the deferred-scale correction
AlphaUncorrected(T_prev, t, prediction) == prediction

\* the loss derivative is taken at margin 0, whatever the predictor
AlphaIgnoringPredictor(T_prev, t, prediction) == Zero

\* line 59
Alpha(T_prev, t, prediction) == RMul(RDiv(T_prev, RSub(t, One)), prediction)

\* the example's weight is ignored
BetaUnweighted(weight, derivative) == derivative

\* line 62
Beta(weight, derivative) == RMul(weight, derivative)

\* the step is taken up the gradient
LastCoeffUnnegated(eta, beta) == RMul(eta, beta)

\* line 65
LastCoeff(eta, beta) == RMul(RNeg(eta), beta)

\* line 69
AvgCoeff(lastCoeff, sigma, t) ==
    RMul(lastCoeff, RSub(RSub(sigma, Log(t[1])), RDiv(Half, t)))

\* the quotient is inverted
ScaleFactorInverted(T_prev, T_next) == RDiv(T_next, T_prev)

\* line 80
ScaleFactor(T_prev, T_next) == RDiv(T_prev, T_next)

\* lines 45-46: the old lastPredictor's contribution to the averaged one
FoldWeights(avg, last, historyWeight) ==
    [avg EXCEPT !.weights = AddTo(last.weights, avg.weights, historyWeight)]

FoldBias(avg, last, historyWeight) ==
    [avg EXCEPT !.bias = RAdd(avg.bias, RMul(last.bias, historyWeight))]

\* lines 59-67: prediction, loss derivative, update of vLast and bLast
LastStep(T_prev, eta, t, last, example) ==
    LET alpha == Alpha(T_prev, t, Predict(last, example.dataVector))
        beta == Beta(example.weight,
                     GetDerivative(lossFunction, alpha, example.label))
        lastCoeff == LastCoeff(eta, beta)
    IN  [alpha |-> alpha, beta |-> beta, lastCoeff |-> lastCoeff,
         last |-> [weights |-> AddTo(example.dataVector, last.weights, lastCoeff),
                   bias |-> RAdd(last.bias, lastCoeff)]]

\* lines 69-71: update of vAvg and bAvg
AvgStep(sigma, t, lastCoeff, avg, example) ==
    LET avgCoeff == AvgCoeff(lastCoeff, sigma, t)
    IN  [avgCoeff |-> avgCoeff,
         avg |-> [weights |-> AddTo(example.dataVector, avg.weights, avgCoeff),
                  bias |-> RAdd(avg.bias, avgCoeff)]]

\* ------------------------------------------------ Update as one function
\* the state Update changes
OptState ==
    [total |-> total_iterations, last |-> lastPredictor, avg |-> averagedPredictor]

\* one pass of the while loop, lines 49-74
BodyFn(T_prev, eta, sigma, s, example) ==
    LET n == NextIteration(s.total)
        t == Int2R(n)
        l == LastStep(T_prev, eta, t, s.last, example)
        a == AvgStep(sigma, t, l.lastCoeff, s.avg, example)
    IN  [total |-> n, last |-> l.last, avg |-> a.avg]

RECURSIVE LoopFn(_, _, _, _, _)
LoopFn(T_prev, eta, sigma, s, items) ==
    IF items = <<>> THEN s
    ELSE LoopFn(T_prev, eta, sigma, BodyFn(T_prev, eta, sigma, s, Head(items)),
                Tail(items))

\* Update(exampleIterator) run to completion from state s over batch, lines 31-82
UpdateFn(s, batch) ==
    LET T_prev == Int2R(s.total)
        T_next == RAdd(T_prev, Int2R(Len(batch)))
        eta == Eta(lambda, T_prev)
        sigma == Sigma(T_next)
        historyWeight == HistoryWeight(sigma, T_prev)
        avg0 == FoldBias(FoldWeights(s.avg, s.last, historyWeight), s.last,
                         historyWeight)
        r == LoopFn(T_prev, eta, sigma, [s EXCEPT !.avg = avg0], batch)
        scale == ScaleFactor(T_prev, T_next)
    IN  [total |-> r.total, last |-> Scale(r.last, scale), avg |-> Scale(r.avg, scale)]

\* ------------------------------------------------------------ the program
NoExample == Example(<<>>, Zero, Zero)

\* Update's locals before they are assigned and after it returns
NoLocals ==
    [T_prev |-> Zero, T_next |-> Zero, eta |-> Zero, sigma |-> Zero,
     historyWeight |-> Zero, t |-> Zero, example |-> NoExample, alpha |-> Zero,
     beta |-> Zero, lastCoeff |-> Zero, avgCoeff |-> Zero, scale |-> Zero]

\* an example source over items that reports miscount more examples than it
\* will yield; the two counters record the calls made on it
Source(items, miscount) ==
    [items |-> items, miscount |-> miscount, numIteratesLeftCalls |-> 0,
     getCalls |-> 0]

\* a source that reports the number of examples it will yield
Iterator(items) == Source(items, 0)

\* ExampleIteratorType::NumIteratesLeft
NumIteratesLeft(it) == Len(it.items) + it.miscount

\* the count is queried a second time
AfterNumIteratesLeftTwice(it) == [it EXCEPT !.numIteratesLeftCalls = @ + 2]

\* the source after one NumIteratesLeft call on it, line 39
AfterNumIteratesLeft(it) == [it EXCEPT !.numIteratesLeftCalls = @ + 1]

\* AnyIterator::IsValid
IsValid(it) == it.items # <<>>

\* the counter starts at zero
SeedIterationsZero == 1 - 1

\* _total_iterations(1), line 23
SeedIterations == 1

\* AsgdOptimizer(dim, lossFunction, lambda), line 23
InitArith(a) ==
    /\ arith = a
    /\ dim \in Dims
    /\ lossFunction \in Losses
    /\ lambda \in Lambdas
    /\ total_iterations = SeedIterations
    /\ lastPredictor = ZeroPredictor(dim)
    /\ averagedPredictor = ZeroPredictor(dim)
    /\ pc = "idle"
    /\ locals = NoLocals
    /\ exampleIterator = Iterator(<<>>)
    /\ predictorRef = "none"
    /\ hist = <<>>
    /\ observed = [value |-> ZeroPredictor(dim), at |-> "none", call |-> 0]

Init == InitArith("double")

InitReal == InitArith("real")

\* Update is entered with an example source of examples of the predictors'
\* dimension; lines 31-38
Update_Begin ==
    /\ pc = "idle"
    /\ Len(hist) < MaxCalls
    /\ \E batch \in Batches :
        /\ total_iterations + Len(batch) <= MaxIter
        /\ \A i \in 1..Len(batch) : Len(batch[i].dataVector) = dim
        /\ exampleIterator' = Iterator(batch)
        /\ hist' = Append(hist, [pre |-> OptState, batch |-> batch, miscount |-> 0])
    /\ locals' = [NoLocals EXCEPT !.T_prev = Int2R(total_iterations)]
    /\ pc' = "consts"
    /\ UNCHANGED <<observed, arith, dim, lossFunction, lambda, total_iterations,
                   lastPredictor, averagedPredictor, predictorRef>>

\* the differences between the count a source reports and the number of
\* examples it yields
Miscounts == {-1, 1}

\* Update is entered with a source whose NumIteratesLeft is not the number of
\* examples it yields (ExampleIteratorType is a template parameter, line 27);
\* once a call's assertion has failed the optimizer is not handed another
\* such source
Update_BeginMisreporting ==
    /\ pc = "idle"
    /\ Len(hist) < MaxCalls
    /\ \A i \in 1..Len(hist) : hist[i].miscount = 0
    /\ \E batch \in Batches, m \in Miscounts :
        /\ Len(batch) + m >= 0
        /\ total_iterations + Len(batch) <= MaxIter
        /\ total_iterations + Len(batch) + m <= MaxIter
        /\ \A i \in 1..Len(batch) : Len(batch[i].dataVector) = dim
        /\ exampleIterator' = Source(batch, m)
        /\ hist' = Append(hist, [pre |-> OptState, batch |-> batch, miscount |-> m])
    /\ locals' = [NoLocals EXCEPT !.T_prev = Int2R(total_iterations)]
    /\ pc' = "consts"
    /\ UNCHANGED <<observed, arith, dim, lossFunction, lambda, total_iterations,
                   lastPredictor, averagedPredictor, predictorRef>>

\* lines 39-44
Update_Consts ==
    /\ pc = "consts"
    /\ LET T_next == RAdd(locals.T_prev, Int2R(NumIteratesLeft(exampleIterator)))
           sigma == Sigma(T_next)
       IN  locals' = [locals EXCEPT
                        !.T_next = T_next,
                        !.eta = Eta(lambda, locals.T_prev),
                        !.sigma = sigma,
                        !.historyWeight = HistoryWeight(sigma, locals.T_prev)]
    /\ exampleIterator' = AfterNumIteratesLeft(exampleIterator)
    /\ pc' = "foldWeights"
    /\ UNCHANGED <<observed, arith, dim, lossFunction, lambda, total_iterations,
                   lastPredictor, averagedPredictor, predictorRef, hist>>

\* line 45
Update_FoldWeights ==
    /\ pc = "foldWeights"
    /\ averagedPredictor' =
         FoldWeights(averagedPredictor, lastPredictor, locals.historyWeight)
    /\ pc' = "foldBias"
    /\ UNCHANGED <<observed, arith, dim, lossFunction, lambda, total_iterations,
                   lastPredictor, locals, exampleIterator, predictorRef, hist>>

\* line 46
Update_FoldBias ==
    /\ pc = "foldBias"
    /\ averagedPredictor' =
         FoldBias(averagedPredictor, lastPredictor, locals.historyWeight)
    /\ pc' = "while"
    /\ UNCHANGED <<observed, arith, dim, lossFunction, lambda, total_iterations,
                   lastPredictor, locals, exampleIterator, predictorRef, hist>>

\* lines 47-56: the loop test succeeds, the next example is read
Update_Get ==
    /\ pc = "while"
    /\ IsValid(exampleIterator)
    /\ total_iterations' = NextIteration(total_iterations)
    /\ locals' = [locals EXCEPT !.t = Int2R(total_iterations'),
                                !.example = Head(exampleIterator.items)]
    /\ exampleIterator' = [exampleIterator EXCEPT !.getCalls = @ + 1]
    /\ pc' = "last"
    /\ UNCHANGED <<observed, arith, dim, lossFunction, lambda, lastPredictor,
                   averagedPredictor, predictorRef, hist>>

\* lines 59-67
Update_Last ==
    /\ pc = "last"
    /\ LET l == LastStep(locals.T_prev, locals.eta, locals.t, lastPredictor,
                         locals.example)
       IN  /\ locals' = [locals EXCEPT !.alpha = l.alpha, !.beta = l.beta,
                                       !.lastCoeff = l.lastCoeff]
           /\ lastPredictor' = l.last
    /\ pc' = "avg"
    /\ UNCHANGED <<observed, arith, dim, lossFunction, lambda, total_iterations,
                   averagedPredictor, exampleIterator, predictorRef, hist>>

\* lines 69-74
Update_Avg ==
    /\ pc = "avg"
    /\ LET a == AvgStep(locals.sigma, locals.t, locals.lastCoeff,
                        averagedPredictor, locals.example)
       IN  /\ locals' = [locals EXCEPT !.avgCoeff = a.avgCoeff]
           /\ averagedPredictor' = a.avg
    /\ exampleIterator' = [exampleIterator EXCEPT !.items = Tail(@)]
    /\ pc' = "while"
    /\ UNCHANGED <<observed, arith, dim, lossFunction, lambda, total_iterations,
                   lastPredictor, predictorRef, hist>>

\* line 77: assert((double)_total_iterations == T_next)
AssertionHolds == Int2R(total_iterations) = locals.T_next

\* lines 47, 77-81: the loop test fails; the assertion holds or is compiled
\* out (NDEBUG) and lastPredictor is scaled, or the assertion fails and the
\* program is aborted
Update_ScaleLast ==
    /\ pc = "while"
    /\ ~IsValid(exampleIterator)
    /\ \/ /\ LET scale == ScaleFactor(locals.T_prev, locals.T_next)
             IN  /\ locals' = [locals EXCEPT !.scale = scale]
                 /\ lastPredictor' = Scale(lastPredictor, scale)
          /\ pc' = "scaleAvg"
       \/ /\ ~AssertionHolds
          /\ pc' = "aborted"
          /\ UNCHANGED <<locals, lastPredictor>>
    /\ UNCHANGED <<observed, arith, dim, lossFunction, lambda, total_iterations,
                   averagedPredictor, exampleIterator, predictorRef, hist>>

\* lines 82-83: averagedPredictor is scaled, Update returns
Update_ScaleAvg ==
    /\ pc = "scaleAvg"
    /\ averagedPredictor' = Scale(averagedPredictor, locals.scale)
    /\ pc' = "idle"
    /\ UNCHANGED <<observed, arith, dim, lossFunction, lambda, total_iterations,
                   lastPredictor, locals, exampleIterator, predictorRef, hist>>

\* the last-iterate predictor is handed out
GetPredictorRefLast == "_lastPredictor"

\* lines 92-95: a reference to _averagedPredictor is returned
GetPredictorRef == "_averagedPredictor"

GetPredictor ==
    /\ pc = "idle"
    /\ predictorRef' = GetPredictorRef
    /\ UNCHANGED <<observed, arith, dim, lossFunction, lambda, total_iterations,
                   lastPredictor, averagedPredictor, pc, locals, exampleIterator,
                   hist>>

Update ==
    \/ Update_Begin
    \/ Update_Consts
    \/ Update_FoldWeights
    \/ Update_FoldBias
    \/ Update_Get
    \/ Update_Last
    \/ Update_Avg
    \/ Update_ScaleLast
    \/ Update_ScaleAvg

Next == Update \/ GetPredictor

Spec == Init /\ [][Next]_vars

SpecReal == InitReal /\ [][Next]_vars

\* the optimizer with lambda = 1, in double and in exact arithmetic
InitEither == (Init \/ InitReal) /\ lambda = One

SpecEither == InitEither /\ [][Next]_vars

\* the reader finds the last-iterate predictor behind its reference
ReadPredictorLast(ref) == lastPredictor

\* what the holder of the reference returned by GetPredictor finds behind it
ReadPredictor(ref) ==
    IF ref = "_averagedPredictor" THEN averagedPredictor ELSE lastPredictor

\* a caller that kept the reference returned by GetPredictor reads the
\* predictor through it, between two Update calls or between two steps of a
\* running Update (a second thread, no synchronization); the read is taken
\* once, and records where Update stood
Read ==
    /\ predictorRef # "none"
    /\ observed.at = "none"
    /\ observed' = [value |-> ReadPredictor(predictorRef), at |-> pc,
                    call |-> Len(hist)]
    /\ UNCHANGED <<arith, dim, lossFunction, lambda, total_iterations,
                   lastPredictor, averagedPredictor, pc, locals, exampleIterator,
                   predictorRef, hist>>

\* the read has been taken and the Update it met, if any, has returned
Settled == observed.at # "none" /\ pc = "idle"

\* the optimizer of the concrete scenario and one reader; a run is followed
\* until the read is settled
InitReader == Init /\ lambda = One /\ lossFunction = "SquaredLoss"

NextReader == (~Settled /\ Next) \/ Read

SpecReader == InitReader /\ [][NextReader]_vars

\* the optimizer of the concrete scenario, fed by arbitrary example sources
InitAnySource == Init /\ lambda = One /\ lossFunction = "SquaredLoss"

NextAnySource == Next \/ Update_BeginMisreporting

SpecAnySource == InitAnySource /\ [][NextAnySource]_vars

\* ----------------------------------------------------------------- claims
\* the examples of the calls i, i + 1, ... in the order they were fed
RECURSIVE FedFrom(_)
FedFrom(i) == IF i > Len(hist) THEN <<>> ELSE hist[i].batch \o FedFrom(i + 1)

\* the number of examples of the calls before call i
RECURSIVE FedBefore(_)
FedBefore(i) == IF i <= 1 THEN 0 ELSE FedBefore(i - 1) + Len(hist[i - 1].batch)

LastCall == hist[Len(hist)]

Returned == pc = "idle" /\ Len(hist) > 0

\* lambda > 0 and no example fed so far has a negative weight
ValidInputs ==
    /\ lambda[1] > 0
    /\ \A i \in 1..Len(hist) : \A k \in 1..Len(hist[i].batch) :
           hist[i].batch[k].weight[1] >= 0

EA == Example(<<One, Zero>>, One, One)
EB == Example(<<Zero, One>>, RNeg(One), One)

\* C1: in exact arithmetic, whenever Update has returned, the optimizer state
\* equals the one a single Update would produce from the state before any
\* earlier call i over all the examples fed since, in the same order.
C1_SplitBatchEquivalence ==
    Returned =>
        \A i \in 1..Len(hist) : OptState = UpdateFn(hist[i].pre, FedFrom(i))

C1_Witness ==
    /\ Returned /\ Len(hist) = 2
    /\ Len(hist[1].batch) = 1 /\ Len(hist[2].batch) = 1
    /\ lastPredictor # ZeroPredictor(dim)
    /\ averagedPredictor # ZeroPredictor(dim)

\* C2: totalIterations is 1 after construction, 1 plus the sizes of the earlier
\* batches when call i begins, and that plus the number of examples read so
\* far at every point of a call, which is the batch size when the call returns.
C2_IterationCount ==
    /\ \A i \in 1..Len(hist) : hist[i].pre.total = 1 + FedBefore(i)
    /\ total_iterations = 1 + FedBefore(Len(hist)) + exampleIterator.getCalls
    /\ Returned => exampleIterator.getCalls = Len(LastCall.batch)
    /\ total_iterations >= 1

C2_Witness ==
    /\ Returned /\ Len(hist) = 2 /\ total_iterations = 3
    /\ Len(hist[1].batch) = 1 /\ Len(hist[2].batch) = 1

\* C3: an Update over an empty example source leaves lastPredictor,
\* averagedPredictor and totalIterations as they were before the call.
C3_ZeroBatchUnchanged ==
    (ValidInputs /\ Returned /\ LastCall.batch = <<>>) => OptState = LastCall.pre

\* the eager algorithm: each example shrinks the predictor by (t-1)/t and adds
\* -(1/(lambda*t)) * weight * GetDerivative(Predict(features), label) times
\* (features, 1); accLast and accAvg sum what the deferred algorithm adds to
\* the unscaled predictors for the same gradients
EagerStep(T_prev, sigma, s, example) ==
    LET t == Int2R(s.total + 1)
        g == RMul(example.weight,
                  GetDerivative(lossFunction, Predict(s.last, example.dataVector),
                                example.label))
        shrunk == Scale(s.last, RDiv(RSub(t, One), t))
        c == RNeg(RMul(RDiv(One, RMul(lambda, t)), g))
        cLast == RNeg(RMul(RDiv(One, RMul(lambda, T_prev)), g))
        cAvg == RMul(cLast, RSub(sigma, RAdd(LnTable[t[1]], RDiv(Half, t))))
    IN  [total |-> s.total + 1,
         last |-> [weights |-> AddTo(example.dataVector, shrunk.weights, c),
                   bias |-> RAdd(shrunk.bias, c)],
         accLast |-> [weights |-> AddTo(example.dataVector, s.accLast.weights, cLast),
                      bias |-> RAdd(s.accLast.bias, cLast)],
         accAvg |-> [weights |-> AddTo(example.dataVector, s.accAvg.weights, cAvg),
                     bias |-> RAdd(s.accAvg.bias, cAvg)]]

RECURSIVE EagerLoop(_, _, _, _)
EagerLoop(T_prev, sigma, s, items) ==
    IF items = <<>> THEN s
    ELSE EagerLoop(T_prev, sigma, EagerStep(T_prev, sigma, s, Head(items)),
                   Tail(items))

PredictorSum(p, q) ==
    [weights |-> [i \in 1..Len(p.weights) |-> RAdd(p.weights[i], q.weights[i])],
     bias |-> RAdd(p.bias, q.bias)]

\* C4: in exact arithmetic, after any Update lastPredictor is the result of
\* the eager algorithm over the batch, and both predictors are T_prev/T_next
\* times (pre-batch value plus the batch's additive contributions), the
\* averaged one's contributions including historyWeight times the old
\* lastPredictor.
C4_EagerEquivalence ==
    Returned =>
        LET pre == LastCall.pre
            n == Len(LastCall.batch)
            T_prev == Int2R(pre.total)
            T_next == Int2R(pre.total + n)
            g(t) == RAdd(LnTable[t[1]], RDiv(Half, t))
            sigma == g(T_next)
            e == EagerLoop(T_prev, sigma,
                           [total |-> pre.total, last |-> pre.last,
                            accLast |-> ZeroPredictor(dim),
                            accAvg |-> ZeroPredictor(dim)],
                           LastCall.batch)
            shrink == RDiv(T_prev, T_next)
            fold == Scale(pre.last, RSub(sigma, g(T_prev)))
        IN  /\ lastPredictor = e.last
            /\ lastPredictor = Scale(PredictorSum(pre.last, e.accLast), shrink)
            /\ averagedPredictor =
                 Scale(PredictorSum(PredictorSum(pre.avg, fold), e.accAvg), shrink)

C4_Witness ==
    /\ Returned /\ Len(hist) = 2
    /\ Len(LastCall.batch) = 2
    /\ LastCall.pre.last # ZeroPredictor(dim)
    /\ lastPredictor # LastCall.pre.last
    /\ averagedPredictor # ZeroPredictor(dim)

FirstCallOf(batch) ==
    /\ Returned /\ Len(hist) = 1 /\ LastCall.batch = batch
    /\ dim = 2 /\ lambda = One /\ lossFunction = "SquaredLoss"

\* C5: a fresh optimizer of dimension 2 with lambda = 1 and squared loss,
\* after one Update over the single example ((1,0), label 1, weight 1), has
\* used T_prev = 1, eta = 1, alpha = 0, lastCoeff = 1, scale = 1/2 and holds
\* lastPredictor = ((1/2, 0), bias 1/2) and totalIterations = 2.
C5_ConcreteScenario ==
    FirstCallOf(<<EA>>) =>
        /\ locals.T_prev = One /\ locals.eta = One /\ locals.alpha = Zero
        /\ locals.lastCoeff = One /\ locals.scale = Half
        /\ lastPredictor = [weights |-> <<Half, Zero>>, bias |-> Half]
        /\ total_iterations = 2

C5_Witness == FirstCallOf(<<EA>>)

\* C6: from a fresh optimizer with lambda = 1 and squared loss, Update over
\* [e1, e2] with e1 = ((1,0), 1, 1), e2 = ((0,1), -1, 1) ends with the same
\* totalIterations as Update over [e2, e1] but with a different lastPredictor
\* and a different averagedPredictor.
C6_OrderSensitive ==
    FirstCallOf(<<EA, EB>>) =>
        LET other == UpdateFn(LastCall.pre, <<EB, EA>>)
        IN  /\ other.total = total_iterations
            /\ other.last # lastPredictor
            /\ other.avg # averagedPredictor

C6_Witness == FirstCallOf(<<EA, EB>>)

\* C7: no optimizer with lambda <= 0 is ever in use: every optimizer that has
\* completed an Update has lambda > 0.
C7_LambdaPositive == Returned => lambda[1] > 0

\* C8: Update never gets past reading an example of negative weight: the
\* weight is never used for beta and lastPredictor.
C8_NegativeWeightRejected ==
    (lambda[1] > 0 /\ pc = "avg") => locals.example.weight[1] >= 0

\* C9: a step between Update calls changes nothing but the reference handed
\* out, which aliases the averaged predictor; lambda and the loss function
\* never change; so only the steps of Update change the optimizer.
C9_GetPredictorPure ==
    [][/\ lambda' = lambda
       /\ lossFunction' = lossFunction
       /\ (pc = "idle" /\ pc' = "idle") =>
            /\ OptState' = OptState
            /\ predictorRef' = "_averagedPredictor"]_vars

C9_Witness ==
    /\ Returned /\ predictorRef = "_averagedPredictor"
    /\ Len(hist) = 2
    /\ averagedPredictor # lastPredictor
    /\ averagedPredictor # ZeroPredictor(dim)

\* C10: within an Update call NumIteratesLeft is called at most once, it has
\* been called once from the fold onwards and when the call returns, and
\* while it has not been called no example has been read and no predictor
\* has been modified.
C10_CountQueriedOnceFirst ==
    /\ exampleIterator.numIteratesLeftCalls <= 1
    /\ (pc \notin {"idle", "consts"} \/ Returned) =>
           exampleIterator.numIteratesLeftCalls = 1
    /\ (pc # "idle" /\ exampleIterator.numIteratesLeftCalls = 0) =>
           /\ exampleIterator.getCalls = 0
           /\ OptState = LastCall.pre

C10_Witness ==
    /\ Returned /\ exampleIterator.numIteratesLeftCalls = 1
    /\ exampleIterator.getCalls = 2
    /\ lastPredictor # LastCall.pre.last

\* the number of examples the source of the last call reported, line 39
Reported == Len(LastCall.batch) + LastCall.miscount

\* the examples of the last call read so far, each once, in arrival order
ReadInOrder ==
    IF pc \in {"last", "avg"}
    THEN /\ exampleIterator.getCalls >= 1
         /\ locals.example = LastCall.batch[exampleIterator.getCalls]
         /\ exampleIterator.items
              = SubSeq(LastCall.batch, exampleIterator.getCalls, Len(LastCall.batch))
    ELSE exampleIterator.items
              = SubSeq(LastCall.batch, exampleIterator.getCalls + 1, Len(LastCall.batch))

AtLeastOne(x) == ~RLess(x, One)

\* C12: totalIterations >= 1 in every state, inside Update included; the
\* divisors T_prev, T_next, t - 1 and t are >= 1 wherever Update holds them
\* (so are the arguments of log, which are T_next, T_prev and t); for the
\* first example of a batch the correction factor T_prev / (t - 1) is 1.
C12_NoDivisionByZero ==
    /\ total_iterations >= 1
    /\ pc # "idle" =>
         /\ locals.T_prev = Int2R(LastCall.pre.total)
         /\ AtLeastOne(locals.T_prev)
    /\ pc \notin {"idle", "consts"} => AtLeastOne(locals.T_next)
    /\ pc \in {"last", "avg"} =>
         /\ locals.t = Int2R(total_iterations)
         /\ AtLeastOne(locals.t)
         /\ AtLeastOne(RSub(locals.t, One))
         /\ exampleIterator.getCalls = 1 =>
              RDiv(locals.T_prev, RSub(locals.t, One)) = One

\* the first example of a second batch is about to be applied: T_prev = 3
C12_Witness ==
    /\ pc = "last"
    /\ exampleIterator.getCalls = 1
    /\ locals.T_prev = Int2R(3)
    /\ RDiv(locals.T_prev, RSub(locals.t, One)) = One

\* the averaged predictor as Update call i leaves it
AvgAfterCall(i) == UpdateFn(hist[i].pre, hist[i].batch).avg

\* C13, serialized half: a read taken between calls finds the averaged
\* predictor as the last completed Update left it (the all-zero predictor
\* before the first call), never an intermediate value.
C13_SerializedReadsWhole ==
    observed.at = "idle" =>
        /\ observed.value = averagedPredictor
        /\ observed.value =
             IF observed.call = 0 THEN ZeroPredictor(dim)
             ELSE AvgAfterCall(observed.call)

\* C13, interleaved half: a read taken inside a running Update, after the
\* weights of the history fold and before its bias, found the weights changed
\* and the bias not, a predictor that is neither the one before that Update
\* nor the one after it.
C13_Witness ==
    /\ Returned
    /\ observed.at = "foldBias"
    /\ observed.call = Len(hist)
    /\ observed.value.weights # LastCall.pre.avg.weights
    /\ observed.value.bias = LastCall.pre.avg.bias
    /\ observed.value # LastCall.pre.avg
    /\ observed.value # averagedPredictor

\* the last example of the running Update has just been applied
LastExampleApplied ==
    /\ pc = "while"
    /\ ~IsValid(exampleIterator)
    /\ exampleIterator.getCalls >= 1

\* the factor of line 69, avgCoeff / lastCoeff
AvgFactor(sigma, t) == AvgCoeff(One, sigma, t)

IsPowerOfTwo(n) == \E k \in 0..n : Pow2(k) = n

\* the first Update of the run was over one example and has returned
FirstUpdateOfOne == Returned /\ Len(hist) = 1 /\ Len(LastCall.batch) = 1

NoGradientAt(pre, batch, i) ==
    \/ batch[i].weight = Zero
    \/ GetDerivative(lossFunction,
                     Alpha(Int2R(pre.total), Int2R(pre.total + i),
                           Predict(pre.last, batch[i].dataVector)),
                     batch[i].label) = Zero

NoGradient(pre, batch) == \A i \in 1..Len(batch) : NoGradientAt(pre, batch, i)

\* the example in hand has weight 0 or a zero loss derivative
NoGradientInHand ==
    \/ locals.example.weight = Zero
    \/ GetDerivative(lossFunction, locals.alpha, locals.example.label) = Zero

\* C15: an example of weight 0 or of zero loss derivative gets
\* lastCoeff = avgCoeff = 0, and an Update over k such examples returns with
\* totalIterations = T_prev + k and lastPredictor = T_prev/(T_prev+k) times
\* its value before the call, which differs from that value when k > 0 and
\* the predictor was not all-zero.
C15_ZeroGradientStillShrinks ==
    /\ (pc = "avg" /\ NoGradientInHand) =>
         locals.beta = Zero /\ locals.lastCoeff = Zero
    /\ (pc = "while" /\ exampleIterator.getCalls >= 1 /\ NoGradientInHand) =>
         locals.avgCoeff = Zero
    /\ (Returned /\ NoGradient(LastCall.pre, LastCall.batch)) =>
         LET pre == LastCall.pre
             k == Len(LastCall.batch)
             shrink == RDiv(Int2R(pre.total), Int2R(pre.total + k))
         IN  /\ total_iterations = pre.total + k
             /\ lastPredictor.bias = RMul(pre.last.bias, shrink)
             /\ \A j \in 1..dim :
                  lastPredictor.weights[j] = RMul(pre.last.weights[j], shrink)
             /\ k = 0 => lastPredictor = pre.last
             /\ (k > 0 /\ pre.last # ZeroPredictor(dim)) => lastPredictor # pre.last

\* a second Update over two examples, one of zero loss derivative and one of
\* weight 0, has shrunk a predictor that was not all-zero
C15_Witness ==
    /\ Returned
    /\ Len(LastCall.batch) = 2
    /\ NoGradient(LastCall.pre, LastCall.batch)
    /\ \E i \in 1..2 : LastCall.batch[i].weight = Zero
    /\ \E i \in 1..2 : LastCall.batch[i].weight # Zero
    /\ LastCall.pre.last # ZeroPredictor(dim)
    /\ lastPredictor # LastCall.pre.last
    /\ total_iterations = LastCall.pre.total + 2

====
